---- MODULE Spec2Model ----
(***************************************************************************)
(* front-irix: the capture -> compression -> transmission pipeline and the *)
(* bounded image store, as state machines.                                 *)
(*                                                                         *)
(*   SpecStore     StorageService   (storage.service.ts, src/unnamed/      *)
(*                                   part_000)                             *)
(*   SpecSocket    SocketService    (socket.service.ts, src/unnamed/       *)
(*                                   part_002) with its caller             *)
(*                                   ImageAnalysisService.analyzeThumbnail *)
(*   SpecCompress  ImageProcessorService.compressToWebP                    *)
(*   SpecFilename  StorageService.generateFilename                         *)
(*   SpecCapture   CameraService (startCapture, stopCapture and the ticks  *)
(*                 of its timer) with ImageProcessorService's resize       *)
(*   SpecAnalysis  SocketService.messages (the inbound result stream) and  *)
(*                 ImageAnalysisService's result dispatcher                *)
(*                                                                         *)
(* Each specification moves the variables of its own component and leaves  *)
(* the others at their initial value.                                      *)
(***************************************************************************)
EXTENDS Integers, Sequences, FiniteSets, TLC

VARIABLES
    \* ---- platform
    isBrowser,          \* isPlatformBrowser(platformId)
    storageWritable,    \* localStorage.setItem succeeds (it throws when the storage
                        \* is disabled or full)
    \* ---- StorageService
    now,                \* Date.now(), in ms
    sameMs,             \* images added during the current millisecond
    storedImages,       \* storedImagesSubject.value, newest first
    imageCache,         \* Map<string, Blob>: id -> blob
    localStorageSlot,   \* localStorage[STORAGE_KEY]: absent, or the metadata list
    nAdded,             \* images handed to the store so far (names the blobs)
    runLen,             \* add calls since construction or the last call that removed
                        \* records by age or cleared the store
    runStrict,          \* those add calls had strictly increasing timestamps
    pruned,             \* some call has removed records by age or cleared the store
    storeOut,           \* the last StorageService call: its argument, what it
                        \* returned and downloaded, whether it removed records
    \* ---- SocketService
    sockets,            \* every socket io() has returned, in creation order: its state
    socket,             \* this.socket: an index into sockets, 0 while undefined
    connected,          \* the BehaviorSubject<boolean> behind isConnected$()
    reconnectAttempts,  \* this.reconnectAttempts
    timers,             \* pending setTimeout callbacks: attempt number -> how many
    scheduled,          \* delays of the timers set since the last 'connect' event
    reconn,             \* the last attemptReconnect call: counter on entry, delay set
    lost,               \* a 'disconnect' event hit a connected channel, no 'connect' since
    reads,              \* FileReader reads in flight: the blobs being read
    wire,               \* 'analyze-image' messages handed to socket.emit, in order
    lastSend,           \* the last sendImageForAnalysis call: whether it went past the
                        \* guard, and what it gave its caller
    imagesAnalyzed,     \* ImageAnalysisService.stats.imagesAnalyzed
    \* ---- ImageProcessorService.compressToWebP
    cPc,                \* where the call is: idle, search, final, fallback, done, failed
    quality,            \* the quality argument
    currentQuality,     \* let currentQuality
    attempts,           \* let attempts
    encodes,            \* the canvas.toBlob calls made so far: format, quality and
                        \* the size of what came back (0: null or an empty blob)
    result,             \* the blob returned: format, size, quality it was encoded at
    \* ---- StorageService.generateFilename
    detectedPlates,     \* the detectedPlates argument: undefined, or a list of strings
    date,               \* new Date(timestamp), as its local-time fields
    filename,           \* the string returned, empty before the call
    \* ---- ImageProcessorService (resize) and CameraService (scheduler)
    picaInstance,       \* this.picaInstance: "pica", or "null" when pica() threw
    processingCanvas,   \* the reusable scratch canvas: its width and height
    captureInterval,    \* this.captureInterval: a timer id, 0 for undefined / null
    armed,              \* the ids of the setInterval timers not cleared
    isCapturing,        \* the BehaviorSubject<boolean> behind isCapturing$
    nStarts,            \* setInterval calls so far (names the timers)
    nFired,             \* firings of the interval timers so far (names the ticks)
    videoSize,          \* videoWidth and videoHeight at the last firing
    stats,              \* this.stats: the three counters of the scheduler
    statsSubject,       \* the stats last published through stats$
    callbacks,          \* invocations of onThumbnailReady and onHDReady so far
    inflight,           \* the ticks in flight, in firing order
    lastTick,           \* the tick that ended last (skipped, done or failed)
    lastFailed,         \* the id of the last tick that ended in the timer's catch
    capOut,             \* the last startCapture / stopCapture call, and whether it
                        \* found the scheduler already capturing / already idle
    \* ---- SocketService.messages and ImageAnalysisService (result dispatcher)
    anNow,              \* Date.now() as the dispatcher reads it, in ms
    messages,           \* the BehaviorSubject behind handleAnalysisResult(): its
                        \* current value, null at construction
    nArrived,           \* 'analysis-result' events so far (names the results)
    subscribed,         \* the subscribers of handleAnalysisResult()
    received,           \* per subscriber: the value its callback was last called
                        \* with, and how many times it was called
    processingTimes,    \* this.processingTimes: the rolling window, oldest first
    averageProcessingTime, \* stats.averageProcessingTime as the fraction sum / count
    platesDetected,     \* ImageAnalysisService.stats.platesDetected
    lastAnalysisTime,   \* ImageAnalysisService.stats.lastAnalysisTime
    cameraDetectedPlates, \* CameraService.stats.detectedPlates
    sends,              \* the startTime of every analyzeThumbnail call, in call order
    lastResult          \* the last 'analysis-result' event: the result, its arrival
                        \* time, and whether the dispatcher handled it

storeVars == <<now, sameMs, storedImages, imageCache, localStorageSlot,
               nAdded, runLen, runStrict, pruned, storeOut>>

sockVars == <<sockets, socket, connected, reconnectAttempts, timers, scheduled,
              reconn, lost, reads, wire, lastSend, imagesAnalyzed>>

compVars == <<cPc, quality, currentQuality, attempts, encodes, result>>

nameVars == <<detectedPlates, date, filename>>

capVars == <<picaInstance, processingCanvas, captureInterval, armed, isCapturing,
             nStarts, nFired, videoSize, stats, statsSubject, callbacks, inflight,
             lastTick, lastFailed, capOut>>

anVars == <<anNow, messages, nArrived, subscribed, received, processingTimes,
            averageProcessingTime, platesDetected, lastAnalysisTime,
            cameraDetectedPlates, sends, lastResult>>

vars == <<isBrowser, storageWritable, storeVars, sockVars, compVars, nameVars, capVars,
          anVars>>

(***************************************************************************)
(* Bounds of the model.                                                    *)
(***************************************************************************)
MaxNow == 102          \* the clock stops here
BurstHorizon == 1      \* several adds per millisecond happen only before this time
MaxSameMs == 2         \* adds within one millisecond, before BurstHorizon
MaxRnd == 2            \* distinct values of the random id suffix
MaxRerun == 3          \* adds after the store was pruned or cleared
PruneHorizon == 3      \* prune and clear calls come before this time, or on a full store
MaxSockets == 2        \* sockets io() creates in one run
MaxTimers == 1         \* reconnect timers pending at once
MaxSends == 1          \* thumbnails handed to analyzeThumbnail in one run
MaxPlates == 2         \* plates in one detectedPlates list
MaxStarts == 2         \* startCapture calls in one run
MaxTicks == 2          \* firings of the capture timer in one run
MaxResults == 102      \* 'analysis-result' events in one run
EarlyHorizon == 2      \* sends, subscriptions and results with hasPlate true or
                       \* missing happen only this long after construction
MaxAnalyses == 2       \* analyzeThumbnail calls in one run of the dispatcher

(***************************************************************************)
(* Program constants.                                                      *)
(***************************************************************************)
MAX_STORED_IMAGES == 100
DefaultMaxAge == 24 * 60 * 60 * 1000
maxReconnectAttempts == 5
BackoffMs == 2000
TARGET_SIZE_KB == 15
maxAttempts == 5
PlateMaxLength == 20
CAPTURE_INTERVAL == 500
TargetSize == 300

\* Qualities are numbers of 1e-7, which keeps five decays of a quality given
\* to two decimals exact.
QScale == 10 ^ 7
QualityFloor == 3 * (QScale \div 10)

None == "none"

Min(a, b) == IF a <= b THEN a ELSE b

(***************************************************************************)
(* SocketService                                                           *)
(***************************************************************************)

\* A socket of socket.io-client, created with reconnectionAttempts set, so its
\* manager reconnects it by itself after a transport loss:
\*   opening       created by io(), no 'connect' yet
\*   connected     socket.connected
\*   reconnecting  'disconnect' fired, the manager is retrying
\*   closed        the manager gave up, or the client called socket.disconnect()
SocketStates == {"opening", "connected", "reconnecting", "closed"}

Attempts == 1..maxReconnectAttempts

NoTimers == [n \in Attempts |-> 0]

RECURSIVE SumTo(_, _)
SumTo(f, n) == IF n = 0 THEN 0 ELSE f[n] + SumTo(f, n - 1)

PendingTimers == SumTo(timers, maxReconnectAttempts)

NoReconn == [entry |-> 0, delay |-> 0, called |-> FALSE]

\* A bug: the guard of attemptReconnect lets one attempt too many through.
MayReconnectOffByOne(n) == n <= maxReconnectAttempts

\* attemptReconnect: `this.reconnectAttempts < this.maxReconnectAttempts`
MayReconnect(n) == n < maxReconnectAttempts

\* attemptReconnect: the delay of the timer, read after the increment.
BackoffDelay(n) == BackoffMs * n

\* attemptReconnect as a whole, on the counter, the timers and the two records
\* of what it did.
attemptReconnect(tm) ==
    IF MayReconnect(reconnectAttempts)
    THEN LET n == reconnectAttempts + 1
         IN  /\ reconnectAttempts' = n
             /\ timers' = [tm EXCEPT ![n] = @ + 1]
             /\ scheduled' = Append(scheduled, BackoffDelay(n))
             /\ reconn' = [entry |-> reconnectAttempts, delay |-> BackoffDelay(n),
                           called |-> TRUE]
    ELSE /\ reconnectAttempts' = reconnectAttempts
         /\ timers' = tm
         /\ scheduled' = scheduled
         /\ reconn' = [entry |-> reconnectAttempts, delay |-> 0, called |-> TRUE]

\* attemptReconnect would set a timer and the model has room for it.
RoomForTimer == MayReconnect(reconnectAttempts) => PendingTimers < MaxTimers

\* A bug: the 'connect' handler leaves the counter as it is.
AttemptsKept(n) == n

\* The 'connect' handler: `this.reconnectAttempts = 0`
AttemptsAfterConnect(n) == 0

\* socket.on('connect', ...): initial connect or the manager's own reconnect.
OnConnect ==
    \E i \in 1..Len(sockets) :
        /\ sockets[i] \in {"opening", "reconnecting"}
        /\ sockets' = [sockets EXCEPT ![i] = "connected"]
        /\ connected' = TRUE
        /\ reconnectAttempts' = AttemptsAfterConnect(reconnectAttempts)
        /\ scheduled' = <<>>
        /\ lost' = FALSE
        /\ UNCHANGED <<isBrowser, storageWritable, nameVars, anVars, capVars, storeVars, compVars, socket, timers, reconn, reads, wire,
                       lastSend, imagesAnalyzed>>

\* socket.on('disconnect', ...): the transport of a connected socket drops.
OnDisconnect ==
    \E i \in 1..Len(sockets) :
        /\ sockets[i] = "connected"
        /\ RoomForTimer
        /\ sockets' = [sockets EXCEPT ![i] = "reconnecting"]
        /\ connected' = FALSE
        /\ lost' = (lost \/ connected)
        /\ attemptReconnect(timers)
        /\ UNCHANGED <<isBrowser, storageWritable, nameVars, anVars, capVars, storeVars, compVars, socket, reads, wire, lastSend, imagesAnalyzed>>

\* The manager of a socket runs out of reconnectionAttempts. It reports this
\* as 'connect_error' / 'reconnect_failed', which connectToSocket does not
\* listen to: no handler runs.
ManagerGivesUp ==
    \E i \in 1..Len(sockets) :
        /\ sockets[i] \in {"opening", "reconnecting"}
        /\ sockets' = [sockets EXCEPT ![i] = "closed"]
        /\ UNCHANGED <<isBrowser, storageWritable, nameVars, anVars, capVars, storeVars, compVars, socket, connected, reconnectAttempts, timers,
                       scheduled, reconn, lost, reads, wire, lastSend, imagesAnalyzed>>

\* A reconnect timer fires and runs connectToSocket: io() returns a new socket,
\* which replaces this.socket (the previous one is neither closed nor stripped
\* of its handlers), or io() throws and the catch calls attemptReconnect.
connectToSocket ==
    \E n \in Attempts, threw \in BOOLEAN :
        /\ timers[n] > 0
        /\ isBrowser
        /\ LET rest == [timers EXCEPT ![n] = @ - 1]
           IN  IF threw
               THEN /\ attemptReconnect(rest)
                    /\ UNCHANGED <<sockets, socket>>
               ELSE /\ Len(sockets) < MaxSockets
                    /\ sockets' = Append(sockets, "opening")
                    /\ socket' = Len(sockets) + 1
                    /\ timers' = rest
                    /\ UNCHANGED <<reconnectAttempts, scheduled, reconn>>
        /\ UNCHANGED <<isBrowser, storageWritable, nameVars, anVars, capVars, storeVars, compVars, connected, lost, reads, wire, lastSend,
                       imagesAnalyzed>>

\* disconnect(): this.socket.disconnect(). A connected socket fires its
\* 'disconnect' event on the spot; the manager does not reconnect it.
disconnect ==
    /\ socket # 0
    /\ sockets[socket] # "closed"
    /\ sockets[socket] = "connected" => RoomForTimer
    /\ sockets' = [sockets EXCEPT ![socket] = "closed"]
    /\ IF sockets[socket] = "connected"
       THEN /\ connected' = FALSE
            /\ lost' = (lost \/ connected)
            /\ attemptReconnect(timers)
       ELSE UNCHANGED <<connected, lost, reconnectAttempts, timers, scheduled, reconn>>
    /\ UNCHANGED <<isBrowser, storageWritable, nameVars, anVars, capVars, storeVars, compVars, socket, reads, wire, lastSend, imagesAnalyzed>>

\* The thumbnails handed over: a MIME type and the bytes.
Blobs == {[type |-> "image/webp", bytes |-> <<82, 73>>],
          [type |-> "image/jpeg", bytes |-> <<255>>]}

\* A bug: the guard of sendImageForAnalysis only tests that a socket exists.
SendAcceptedAnySocket == socket # 0

\* sendImageForAnalysis: `!(!this.socket || !this.socket.connected)`
SendAccepted == socket # 0 /\ sockets[socket] = "connected"

\* Both the early `return;` of a refused send and the end of an accepted one
\* give the caller undefined (a resolved Promise<void> in the async variant).
SendResult(accepted) == "undefined"

\* analyzeThumbnail: startTime = Date.now(), sendImageForAnalysis(thumbnail),
\* then imagesAnalyzed++ and lastAnalysisTime = startTime whatever the send
\* did.  maxCalls bounds the calls of one run, thumbnails are the blobs
\* the caller passes.
AnalyzeThumbnail(maxCalls, thumbnails) ==
    \E blob \in thumbnails :
        /\ imagesAnalyzed < maxCalls
        /\ reads' = IF SendAccepted THEN Append(reads, blob) ELSE reads
        /\ lastSend' = [accepted |-> SendAccepted, ret |-> SendResult(SendAccepted)]
        /\ imagesAnalyzed' = imagesAnalyzed + 1
        /\ lastAnalysisTime' = anNow
        /\ sends' = Append(sends, anNow)
        /\ UNCHANGED <<isBrowser, storageWritable, nameVars, capVars, storeVars, compVars, sockets, socket, connected, reconnectAttempts,
                       timers, scheduled, reconn, lost, wire,
                       anNow, messages, nArrived, subscribed, received,
                       processingTimes, averageProcessingTime, platesDetected,
                       cameraDetectedPlates, lastResult>>

analyzeThumbnail == AnalyzeThumbnail(MaxSends, Blobs)

Remove(s, k) == SubSeq(s, 1, k - 1) \o SubSeq(s, k + 1, Len(s))

\* A bug: the size field counts the bytes in units of 1024.
PayloadSizeKB(data) == Len(data) \div 1024

\* `size: imageData.length`
PayloadSize(data) == Len(data)

\* The payload of reader.onload.
Payload(blob) ==
    LET imageData == blob.bytes
    IN  [clientId |-> "", data |-> imageData, format |-> "image/webp",
         size |-> PayloadSize(imageData),
         optimization |-> [originalFormat |-> blob.type, targetFormat |-> "image/webp",
                           forced |-> TRUE]]

\* A read ends: reader.onload with a result emits on this.socket as it is by
\* then (socket.io holds the message of a socket that is not connected in its
\* send buffer); onload with a null result and onerror only log.
FileReaderDone ==
    \E k \in 1..Len(reads), outcome \in {"load", "null", "error"} :
        /\ reads' = Remove(reads, k)
        /\ wire' = IF outcome = "load"
                   THEN Append(wire, [payload |-> Payload(reads[k]), socket |-> socket,
                                      sent |-> sockets[socket] = "connected"])
                   ELSE wire
        /\ UNCHANGED <<isBrowser, storageWritable, nameVars, anVars, capVars, storeVars, compVars, sockets, socket, connected, reconnectAttempts,
                       timers, scheduled, reconn, lost, lastSend, imagesAnalyzed>>

\* The socket variables before the constructor has run.
SocketIdle ==
    /\ sockets = <<>>
    /\ socket = 0
    /\ connected = FALSE
    /\ reconnectAttempts = 0
    /\ timers = NoTimers
    /\ scheduled = <<>>
    /\ reconn = NoReconn
    /\ lost = FALSE
    /\ reads = <<>>
    /\ wire = <<>>
    /\ lastSend = [accepted |-> FALSE, ret |-> None]
    /\ imagesAnalyzed = 0

\* The constructor: connectToSocket() in a browser, where io() returns the
\* first socket or throws (the catch then calls attemptReconnect).
SocketConstructed ==
    /\ connected = FALSE
    /\ lost = FALSE
    /\ reads = <<>>
    /\ wire = <<>>
    /\ lastSend = [accepted |-> FALSE, ret |-> None]
    /\ imagesAnalyzed = 0
    /\ \/ /\ ~isBrowser
          /\ sockets = <<>> /\ socket = 0 /\ reconnectAttempts = 0
          /\ timers = NoTimers /\ scheduled = <<>> /\ reconn = NoReconn
       \/ /\ isBrowser
          /\ sockets = <<"opening">> /\ socket = 1 /\ reconnectAttempts = 0
          /\ timers = NoTimers /\ scheduled = <<>> /\ reconn = NoReconn
       \/ /\ isBrowser
          /\ sockets = <<>> /\ socket = 0 /\ reconnectAttempts = 1
          /\ timers = [NoTimers EXCEPT ![1] = 1]
          /\ scheduled = <<BackoffDelay(1)>>
          /\ reconn = [entry |-> 0, delay |-> BackoffDelay(1), called |-> TRUE]



(***************************************************************************)
(* ImageProcessorService.compressToWebP                                    *)
(***************************************************************************)

\* The qualities compressToWebP is called with (processImageTo300x300 passes 0.75).
InitialQualities == {q * (QScale \div 100) : q \in {20, 30, 36, 40, 50, 75, 90, 100}}

\* What canvas.toBlob hands back: a byte size, 0 for null or an empty blob.
Budget == TARGET_SIZE_KB * 1024

EncodeSizes == {0, Budget, Budget + 1, 40 * 1024}

\* tryCompressToFormat: `blob && blob.size > 0` resolves, anything else rejects.
Resolves(size) == size > 0

\* `sizeKB <= TARGET_SIZE_KB` with sizeKB = size / 1024
WithinBudget(size) == size <= TARGET_SIZE_KB * 1024

\* A bug: each turn halves the quality.
HalveQuality(q) == q \div 2

\* A bug: each turn raises the quality.
RaiseQuality(q) == (q * 10) \div 8

\* `currentQuality *= 0.8`
DecayQuality(q) == (q * 8) \div 10

\* A bug: the search only gives up below quality 0.2.
BelowFifth(q) == q < 2 * (QScale \div 10)

\* A bug: the search gives up at quality 0.5 instead of 0.3.
BelowHalf(q) == q < 5 * (QScale \div 10)

\* `currentQuality < 0.3`
BelowFloor(q) == q < QualityFloor

\* A bug: the quality of the JPEG is not capped.
SixTenths(q) == (q * 6) \div 10

\* `Math.min(quality * 0.6, 0.5)`
FallbackQuality(q) == Min((q * 6) \div 10, 5 * (QScale \div 10))

Blob(format, size, q) == [format |-> format, size |-> size, quality |-> q]

NoBlob == Blob(None, 0, 0)

compressToWebP ==
    \E q \in InitialQualities :
        /\ cPc = "idle"
        /\ quality' = q
        /\ currentQuality' = q
        /\ attempts' = 0
        /\ cPc' = IF 0 < maxAttempts THEN "search" ELSE "final"
        /\ UNCHANGED <<isBrowser, storageWritable, nameVars, anVars, capVars, storeVars, sockVars, encodes, result>>

\* One turn of `while (attempts < maxAttempts)`.
SearchEncode ==
    \E size \in EncodeSizes :
        /\ cPc = "search"
        /\ encodes' = Append(encodes, Blob("image/webp", size, currentQuality))
        /\ IF ~Resolves(size)
           THEN /\ cPc' = "fallback"
                /\ UNCHANGED <<currentQuality, attempts, result>>
           ELSE IF WithinBudget(size)
           THEN /\ cPc' = "done"
                /\ result' = Blob("image/webp", size, currentQuality)
                /\ UNCHANGED <<currentQuality, attempts>>
           ELSE /\ currentQuality' = DecayQuality(currentQuality)
                /\ attempts' = attempts + 1
                /\ IF BelowFloor(currentQuality')
                   THEN /\ cPc' = "done"
                        /\ result' = Blob("image/webp", size, currentQuality)
                   ELSE /\ cPc' = IF attempts' < maxAttempts THEN "search" ELSE "final"
                        /\ UNCHANGED result
        /\ UNCHANGED <<isBrowser, storageWritable, nameVars, anVars, capVars, storeVars, sockVars, quality>>

\* The encode after the loop: `finalBlob`.
FinalEncode ==
    \E size \in EncodeSizes :
        /\ cPc = "final"
        /\ encodes' = Append(encodes, Blob("image/webp", size, currentQuality))
        /\ IF Resolves(size)
           THEN /\ cPc' = "done"
                /\ result' = Blob("image/webp", size, currentQuality)
           ELSE /\ cPc' = "fallback"
                /\ UNCHANGED result
        /\ UNCHANGED <<isBrowser, storageWritable, nameVars, anVars, capVars, storeVars, sockVars, quality, currentQuality, attempts>>

\* catch (webpError): one JPEG encode; if it rejects too the call throws.
FallbackEncode ==
    \E size \in EncodeSizes :
        /\ cPc = "fallback"
        /\ encodes' = Append(encodes, Blob("image/jpeg", size, FallbackQuality(quality)))
        /\ IF Resolves(size)
           THEN /\ cPc' = "done"
                /\ result' = Blob("image/jpeg", size, FallbackQuality(quality))
           ELSE /\ cPc' = "failed"
                /\ UNCHANGED result
        /\ UNCHANGED <<isBrowser, storageWritable, nameVars, anVars, capVars, storeVars, sockVars, quality, currentQuality, attempts>>

CompressIdle ==
    /\ cPc = "idle"
    /\ quality = 0
    /\ currentQuality = 0
    /\ attempts = 0
    /\ encodes = <<>>
    /\ result = NoBlob

(***************************************************************************)
(* StorageService                                                          *)
(***************************************************************************)

\* generateImageId: `img_${Date.now()}_${random}`; the id is the pair.
generateImageId(t, r) == <<t, r>>

\* The StoredImage built by saveHDImageInMemory / saveHDImageToDevice. Its
\* filename (see generateFilename below), plates, colour and description are
\* set once and read by no store operation; the record is modelled without them.
StoredImage(id, t, blob) == [id |-> id, timestamp |-> t, blob |-> blob]

\* Map.set and Map.delete on the blob cache.
CacheSet(cache, id, blob) ==
    [k \in DOMAIN cache \cup {id} |-> IF k = id THEN blob ELSE cache[k]]

CacheDelete(cache, ids) == [k \in DOMAIN cache \ ids |-> cache[k]]

SeqIds(s) == {s[i].id : i \in 1..Len(s)}

\* [storedImage, ...currentImages]
Prepend(img, images) == <<img>> \o images

\* A bug: the overflow test is dropped and the list grows without limit.
KeepAllImages(updated) == updated

\* A bug: the overflow cut keeps the tail of the list, evicting the newest.
KeepOldestImages(updated) ==
    IF Len(updated) > MAX_STORED_IMAGES
    THEN SubSeq(updated, Len(updated) - MAX_STORED_IMAGES + 1, Len(updated))
    ELSE updated

\* addStoredImage, the list after `updatedImages.splice(MAX_STORED_IMAGES)`.
KeptImages(updated) ==
    IF Len(updated) > MAX_STORED_IMAGES
    THEN SubSeq(updated, 1, MAX_STORED_IMAGES)
    ELSE updated

\* addStoredImage, `updatedImages.slice(MAX_STORED_IMAGES)`: the records cut off.
RemovedImages(updated) ==
    IF Len(updated) > MAX_STORED_IMAGES
    THEN SubSeq(updated, MAX_STORED_IMAGES + 1, Len(updated))
    ELSE <<>>

\* localStorage.getItem(STORAGE_KEY): null, or the list last written.
NoItem == [present |-> FALSE, items |-> <<>>]

Item(metadata) == [present |-> TRUE, items |-> metadata]

\* A bug: the records are written as they are, blob included.
MetadataWithBlob(images) == images

\* `images.map(({ blob, ...meta }) => meta)`
Metadata(images) ==
    [i \in 1..Len(images) |-> [id |-> images[i].id, timestamp |-> images[i].timestamp]]

\* saveStoredImages: the slot after the call. Outside a browser the call
\* returns at once; a setItem that throws is caught and logged.
saveStoredImages(images) ==
    IF isBrowser /\ storageWritable THEN Item(Metadata(images)) ELSE localStorageSlot

\* The random suffixes an add can draw. Only equality with the other suffixes
\* of the same millisecond matters, so the k-th add of a millisecond draws one
\* of the first k values: an earlier one again, or a fresh one.
RandomSuffixes == 0..Min(sameMs, MaxRnd - 1)

CanAdd ==
    /\ sameMs < (IF now < BurstHorizon THEN MaxSameMs ELSE 1)
    /\ pruned => runLen < MaxRerun

\* cache.set(id, blob); addStoredImage(storedImage)
StoreImage(r, op, download) ==
    LET id == generateImageId(now, r)
        blob == nAdded + 1
        img == StoredImage(id, now, blob)
        updated == Prepend(img, storedImages)
        kept == KeptImages(updated)
    IN  /\ CanAdd
        /\ imageCache' = CacheDelete(CacheSet(imageCache, id, blob),
                                     SeqIds(RemovedImages(updated)))
        /\ storedImages' = kept
        /\ localStorageSlot' = saveStoredImages(kept)
        /\ nAdded' = blob
        /\ sameMs' = sameMs + 1
        /\ runLen' = runLen + 1
        /\ runStrict' = (runStrict /\ sameMs = 0)
        /\ storeOut' = [op |-> op, ret |-> id,
                        saveAs |-> IF download /\ isBrowser THEN blob ELSE 0,
                        cutoffTime |-> 0, again |-> FALSE,
                        removed |-> RemovedImages(updated) # <<>>]
        /\ UNCHANGED <<isBrowser, storageWritable, nameVars, anVars, capVars, now, pruned, sockVars, compVars>>

saveHDImageInMemory == \E r \in RandomSuffixes : StoreImage(r, "saveHDImageInMemory", FALSE)

saveHDImageToDevice == \E r \in RandomSuffixes : StoreImage(r, "saveHDImageToDevice", TRUE)

\* The moments at which the model calls clearOldImages and clearAllImages.
CanPrune == now < PruneHorizon \/ Len(storedImages) = MAX_STORED_IMAGES

\* The ages clearOldImages is called with; the last is the default argument.
MaxAges == {0, 1, 2, DefaultMaxAge}

\* A bug: the filter is followed by a cut that starts one place too far.
RecentButFirst(images, cutoffTime) ==
    LET Recent(img) == img.timestamp > cutoffTime
        recent == SelectSeq(images, Recent)
    IN  SubSeq(recent, 2, Len(recent))

\* A bug: the record at the cutoff is kept.
RecentOrAtCutoff(images, cutoffTime) ==
    LET Recent(img) == img.timestamp >= cutoffTime
    IN  SelectSeq(images, Recent)

\* `storedImages.filter(img => img.timestamp > cutoffTime)`
RecentImages(images, cutoffTime) ==
    LET Recent(img) == img.timestamp > cutoffTime
    IN  SelectSeq(images, Recent)

\* The ids the forEach deletes from the cache: `img.timestamp <= cutoffTime`
OldIds(images, cutoffTime) ==
    {images[i].id : i \in {j \in 1..Len(images) : images[j].timestamp <= cutoffTime}}

clearOldImages ==
    \E maxAge \in MaxAges :
        LET cutoffTime == now - maxAge
            recentImages == RecentImages(storedImages, cutoffTime)
            old == OldIds(storedImages, cutoffTime)
        IN  /\ CanPrune
            /\ imageCache' = CacheDelete(imageCache, old)
            /\ storedImages' = recentImages
            /\ localStorageSlot' = saveStoredImages(recentImages)
            /\ runLen' = IF recentImages = storedImages THEN runLen ELSE 0
            /\ runStrict' = (recentImages = storedImages => runStrict)
            /\ pruned' = (pruned \/ recentImages # storedImages)
            /\ storeOut' = [op |-> "clearOldImages", ret |-> None, saveAs |-> 0,
                            cutoffTime |-> cutoffTime,
                            again |-> /\ storeOut.op = "clearOldImages"
                                      /\ storeOut.cutoffTime = cutoffTime,
                            removed |-> Len(storedImages) - Len(recentImages) > 0]
            /\ UNCHANGED <<isBrowser, storageWritable, nameVars, anVars, capVars, now, sameMs, nAdded, sockVars, compVars>>

\* A bug: the cache is left as it is.
CacheKept(cache) == cache

\* Map.clear
CacheClear(cache) == <<>>

clearAllImages ==
    /\ CanPrune
    /\ storedImages' = <<>>
    /\ imageCache' = CacheClear(imageCache)
    /\ localStorageSlot' = saveStoredImages(<<>>)
    /\ runLen' = IF storedImages = <<>> THEN runLen ELSE 0
    /\ runStrict' = (storedImages = <<>> => runStrict)
    /\ pruned' = (pruned \/ storedImages # <<>>)
    /\ storeOut' = [op |-> "clearAllImages", ret |-> None, saveAs |-> 0,
                    cutoffTime |-> 0, again |-> FALSE,
                    removed |-> storedImages # <<>>]
    /\ UNCHANGED <<isBrowser, storageWritable, nameVars, anVars, capVars, now, sameMs, nAdded, sockVars, compVars>>

\* The clock moves on to the next millisecond in which an image is added
\* (milliseconds without an add are skipped).
Tick ==
    /\ sameMs > 0
    /\ now < MaxNow
    /\ now' = now + 1
    /\ sameMs' = 0
    /\ UNCHANGED <<isBrowser, storageWritable, nameVars, anVars, capVars, storedImages, imageCache, localStorageSlot,
                   nAdded, runLen, runStrict, pruned, storeOut, sockVars, compVars>>

\* The store as the constructor leaves it (loadStoredImages only logs).
StoreConstructed ==
    /\ now = 0
    /\ sameMs = 0
    /\ storedImages = <<>>
    /\ imageCache = <<>>
    /\ localStorageSlot = NoItem
    /\ nAdded = 0
    /\ runLen = 0
    /\ runStrict = TRUE
    /\ pruned = FALSE
    /\ storeOut = [op |-> None, ret |-> None, saveAs |-> 0,
                   cutoffTime |-> 0, again |-> FALSE, removed |-> FALSE]

(***************************************************************************)
(* StorageService.generateFilename                                         *)
(*                                                                         *)
(* A string is the sequence of its characters.                             *)
(***************************************************************************)

LowerCase == <<"a", "b", "c", "d", "e", "f", "g", "h", "i", "j", "k", "l", "m",
               "n", "o", "p", "q", "r", "s", "t", "u", "v", "w", "x", "y", "z">>

UpperCase == <<"A", "B", "C", "D", "E", "F", "G", "H", "I", "J", "K", "L", "M",
               "N", "O", "P", "Q", "R", "S", "T", "U", "V", "W", "X", "Y", "Z">>

Digits == <<"0", "1", "2", "3", "4", "5", "6", "7", "8", "9">>

Range(s) == {s[i] : i \in 1..Len(s)}

\* A bug: the regular expression is /\W/g, which lets the underscore through.
IsWordCharacter(c) ==
    c \in Range(LowerCase) \cup Range(UpperCase) \cup Range(Digits) \cup {"_"}

\* The characters /[^a-zA-Z0-9]/g leaves in place.
IsAlphanumeric(c) == c \in Range(LowerCase) \cup Range(UpperCase) \cup Range(Digits)

\* `.replace(/[^a-zA-Z0-9]/g, '')`
RemoveNonAlphanumeric(s) == SelectSeq(s, IsAlphanumeric)

\* String.prototype.toUpperCase, character by character.
ToUpperCaseChar(c) ==
    IF c \in Range(LowerCase)
    THEN UpperCase[CHOOSE i \in 1..Len(LowerCase) : LowerCase[i] = c]
    ELSE IF c = "ñ" THEN "Ñ" ELSE c

toUpperCase(s) == [i \in 1..Len(s) |-> ToUpperCaseChar(s[i])]

\* Array.prototype.join
RECURSIVE join(_, _)
join(list, separator) ==
    IF Len(list) = 0 THEN <<>>
    ELSE IF Len(list) = 1 THEN list[1]
    ELSE list[1] \o separator \o join(Tail(list), separator)

\* String.prototype.slice(0, end)
slice(s, end) == SubSeq(s, 1, Min(end, Len(s)))

\* String(n) of a natural number.
RECURSIVE String(_)
String(n) ==
    IF n < 10 THEN <<Digits[n + 1]>>
    ELSE String(n \div 10) \o <<Digits[(n % 10) + 1]>>

\* String.prototype.padStart(length, '0')
RECURSIVE padStart(_, _)
padStart(s, length) == IF Len(s) >= length THEN s ELSE padStart(<<"0">> \o s, length)

\* A bug: the month is written as getMonth() gives it, from 0.
MonthIndex(d) == d.month

\* `date.getMonth() + 1`
MonthNumber(d) == d.month + 1

\* `date.toTimeString().slice(0, 8)`: "HH:MM:SS"
toTimeString8(d) ==
    padStart(String(d.hours), 2) \o <<":">> \o padStart(String(d.minutes), 2)
        \o <<":">> \o padStart(String(d.seconds), 2)

\* `.replace(/:/g, '-')`
ReplaceColons(s) == [i \in 1..Len(s) |-> IF s[i] = ":" THEN "-" ELSE s[i]]

\* `${year}${month}${day}_${time}`
DateStr(d) ==
    LET year == String(d.fullYear)
        month == padStart(String(MonthNumber(d)), 2)
        day == padStart(String(d.date), 2)
        time == ReplaceColons(toTimeString8(d))
    IN  year \o month \o day \o <<"_">> \o time

\* `detectedPlates && detectedPlates.length > 0`
PlatesKnown(plates) == plates.defined /\ Len(plates.list) > 0

\* The plate text as it goes into the name.
PlateStr(list) ==
    slice(toUpperCase(RemoveNonAlphanumeric(join(list, <<"_">>))), PlateMaxLength)

generateFilename(d, plates) ==
    IF PlatesKnown(plates)
    THEN <<"I", "R", "I", "X", "_", "P", "L", "A", "C", "A", "_">> \o PlateStr(plates.list)
             \o <<"_">> \o DateStr(d) \o <<".", "j", "p", "g">>
    ELSE <<"I", "R", "I", "X", "_", "V", "E", "H", "Í", "C", "U", "L", "O", "_">>
             \o DateStr(d) \o <<".", "j", "p", "g">>

\* The plates handed over: "abc-123", "xyz-987 KLM456", "ñ _/", "", "q1_w2".
Plates == {<<"a", "b", "c", "-", "1", "2", "3">>,
           <<"x", "y", "z", "-", "9", "8", "7", " ", "K", "L", "M", "4", "5", "6">>,
           <<"ñ", " ", "_", "/">>,
           <<>>,
           <<"q", "1", "_", "w", "2">>}

Undefined == [defined |-> FALSE, list |-> <<>>]

PlateLists ==
    {Undefined} \cup
    UNION {{[defined |-> TRUE, list |-> l] : l \in [1..n -> Plates]} : n \in 0..MaxPlates}

\* The local-time fields of the Date objects: getFullYear, getMonth (from 0),
\* getDate, and the hours, minutes and seconds toTimeString prints.
Dates == {[fullYear |-> 2024, month |-> 0, date |-> 1,
           hours |-> 0, minutes |-> 0, seconds |-> 0],
          [fullYear |-> 2025, month |-> 8, date |-> 9,
           hours |-> 9, minutes |-> 5, seconds |-> 7],
          [fullYear |-> 2025, month |-> 9, date |-> 10,
           hours |-> 10, minutes |-> 10, seconds |-> 10],
          [fullYear |-> 2026, month |-> 11, date |-> 31,
           hours |-> 23, minutes |-> 59, seconds |-> 59]}

\* A call of generateFilename, as saveHDImageInMemory and saveHDImageToDevice
\* make it.
GenerateFilenameCall ==
    /\ filename = <<>>
    /\ filename' = generateFilename(date, detectedPlates)
    /\ UNCHANGED <<isBrowser, storageWritable, detectedPlates, date,
                   storeVars, sockVars, compVars, capVars, anVars>>

FilenameIdle ==
    /\ detectedPlates = Undefined
    /\ date = [fullYear |-> 1970, month |-> 0, date |-> 1,
               hours |-> 0, minutes |-> 0, seconds |-> 0]
    /\ filename = <<>>

(***************************************************************************)
(* CameraService: the capture scheduler, with the thumbnail pipeline of    *)
(* ImageProcessorService.processImageTo300x300 that every tick runs.       *)
(*                                                                         *)
(* A tick is an async callback: between two of its awaits other ticks and  *)
(* the calls of the component run. Each action below is the code from one  *)
(* await to the next. averageFPS and startTime, a derived figure, are left *)
(* out of stats.                                                           *)
(***************************************************************************)

\* Date.now() for the scheduler: time is seen to pass from one firing of the
\* interval timer to the next.
DateNow == CAPTURE_INTERVAL * nFired

\* The canvas document.createElement('canvas') gives: 300 x 150.
NewCanvas == [width |-> 300, height |-> 150]

\* What the video element reports as videoWidth x videoHeight: 0 x 0 until
\* the stream delivers frames.
VideoSizes == {[width |-> 0, height |-> 0], [width |-> 1920, height |-> 1080]}

\* A bug: captureFrame goes on whatever the dimensions are.
AlwaysAvailable(videoWidth, videoHeight) == TRUE

\* captureFrame: `!(!videoElement.videoWidth || !videoElement.videoHeight)`
FrameAvailable(videoWidth, videoHeight) == videoWidth # 0 /\ videoHeight # 0

\* What a callback handed over by the caller does when invoked.
CallbackOutcomes == {"returns", "onThumbnailReady throws", "onHDReady throws"}

NoResize == [via |-> "none", width |-> 0, height |-> 0]

\* A tick from the firing of the timer on:
\*   pc       bitmap    awaiting createImageBitmap
\*            resize    awaiting picaInstance.resize into processingCanvas
\*            encode    awaiting compressToWebP, which reads processingCanvas
\*            hd        awaiting toBlob of the full-resolution canvas
\*            fallback  awaiting the two toBlob calls of captureFrameFallback
\*   why      what sent the tick to captureFrameFallback
\*   pica     how the Pica resize of the tick went, while its result is in use
\*   resized  the canvas resizeImageBitmap returned, while it is in use
\*   thumb, hd  invocations of onThumbnailReady and onHDReady by this tick
CaptureTick(id) == [id |-> id, pc |-> "bitmap", why |-> "none", pica |-> "none",
             resized |-> NoResize, thumb |-> 0, hd |-> 0]

NoTick == [id |-> 0, pc |-> "none", why |-> "none", thumb |-> 0, hd |-> 0]

\* A bug: stopCapture forgets the timer without cancelling it.
IntervalLeftArmed(timerIds, id) == timerIds

\* `clearInterval(this.captureInterval)`
ClearInterval(timerIds, id) == timerIds \ {id}

\* stopCapture, on the timer.
TimersAfterStop == IF captureInterval # 0
                   THEN ClearInterval(armed, captureInterval)
                   ELSE armed

\* startCapture: stopCapture() when a timer is set, then the reset of the
\* frame counter and a new setInterval.
startCapture ==
    /\ nStarts < MaxStarts
    /\ armed' = TimersAfterStop \cup {nStarts + 1}
    /\ captureInterval' = nStarts + 1
    /\ nStarts' = nStarts + 1
    /\ isCapturing' = TRUE
    /\ stats' = [stats EXCEPT !.totalFramesCaptured = 0]
    /\ statsSubject' = stats'
    /\ capOut' = [op |-> "startCapture", again |-> captureInterval # 0]
    /\ UNCHANGED <<isBrowser, storageWritable, nameVars, anVars, storeVars, sockVars, compVars,
                   picaInstance, processingCanvas, nFired, videoSize, callbacks,
                   inflight, lastTick, lastFailed>>

\* stopCapture. Ticks in flight are not told.
stopCapture ==
    /\ armed' = TimersAfterStop
    /\ captureInterval' = 0
    /\ isCapturing' = FALSE
    /\ capOut' = [op |-> "stopCapture",
                  again |-> captureInterval = 0 /\ ~isCapturing]
    /\ UNCHANGED <<isBrowser, storageWritable, nameVars, anVars, storeVars, sockVars, compVars,
                   picaInstance, processingCanvas, nStarts, nFired, videoSize, stats,
                   statsSubject, callbacks, inflight, lastTick, lastFailed>>

\* The interval timer fires: the callback runs captureFrame up to its first
\* await. Without frame dimensions captureFrame returns at once and the
\* callback goes on to updateStats.
TimerFires ==
    \E id \in armed, size \in VideoSizes :
        /\ nFired < MaxTicks
        /\ nFired' = nFired + 1
        /\ videoSize' = size
        /\ IF FrameAvailable(size.width, size.height)
           THEN /\ inflight' = Append(inflight, CaptureTick(nFired + 1))
                /\ UNCHANGED <<lastTick, statsSubject>>
           ELSE /\ lastTick' = [NoTick EXCEPT !.id = nFired + 1, !.pc = "skipped"]
                /\ statsSubject' = stats
                /\ UNCHANGED inflight
        /\ UNCHANGED <<isBrowser, storageWritable, nameVars, anVars, storeVars, sockVars, compVars,
                       picaInstance, processingCanvas, captureInterval, armed,
                       isCapturing, nStarts, stats, callbacks, lastFailed, capOut>>

\* A bug: captureFrame's catch gives up on the tick.
TickDropped(t, why) ==
    [t EXCEPT !.pc = "dropped", !.why = why, !.pica = "none", !.resized = NoResize]

\* captureFrame's catch: the tick goes on in captureFrameFallback, which draws
\* on canvases of its own and awaits their two JPEG encodes.
captureFrameFallback(t, why) ==
    [t EXCEPT !.pc = "fallback", !.why = why, !.pica = "none", !.resized = NoResize]

\* A bug: the native resize leaves the canvas at the size it had.
CanvasKept(canvas, targetW, targetH) == canvas

\* fallbackResize: sets the scratch canvas to the target size and draws the
\* source into it.
fallbackResize(canvas, targetW, targetH) == [width |-> targetW, height |-> targetH]

\* The canvas a resizeImageBitmap call returns: the scratch canvas, as it is
\* at the return.
Resized(via, canvas) == [via |-> via, width |-> canvas.width, height |-> canvas.height]

\* createImageBitmap settles. Rejected, processImageTo300x300 rethrows into
\* captureFrame's catch. Resolved, resizeImageBitmap starts: without a 2D
\* context for the source canvas, or without a Pica instance, its catch runs
\* fallbackResize and compressToWebP starts; otherwise it sets the size of the
\* scratch canvas and awaits Pica.
BitmapDone ==
    \E k \in 1..Len(inflight), outcome \in {"rejected", "noContext", "resize"} :
        LET t == inflight[k]
            sized == [width |-> TargetSize, height |-> TargetSize]
            native == fallbackResize(IF outcome = "noContext" THEN processingCanvas
                                     ELSE sized, TargetSize, TargetSize)
        IN  /\ t.pc = "bitmap"
            /\ IF outcome = "rejected"
               THEN /\ inflight' = [inflight EXCEPT ![k] = captureFrameFallback(t, "bitmap")]
                    /\ UNCHANGED processingCanvas
               ELSE IF outcome = "noContext" \/ picaInstance = "null"
               THEN /\ processingCanvas' = native
                    /\ inflight' = [inflight EXCEPT ![k] =
                          [t EXCEPT !.pc = "encode",
                                    !.pica = IF outcome = "noContext" THEN "noContext"
                                             ELSE "unavailable",
                                    !.resized = Resized("native", native)]]
               ELSE /\ processingCanvas' = sized
                    /\ inflight' = [inflight EXCEPT ![k].pc = "resize"]
            /\ UNCHANGED <<isBrowser, storageWritable, nameVars, anVars, storeVars, sockVars, compVars,
                           picaInstance, captureInterval, armed, isCapturing, nStarts,
                           nFired, videoSize, stats, statsSubject, callbacks, lastTick,
                           lastFailed, capOut>>

\* picaInstance.resize settles: it gives back the scratch canvas, or it throws
\* and the catch of resizeImageBitmap runs fallbackResize. compressToWebP
\* starts on the canvas returned.
PicaDone ==
    \E k \in 1..Len(inflight), ok \in BOOLEAN :
        LET t == inflight[k]
            native == fallbackResize(processingCanvas, TargetSize, TargetSize)
        IN  /\ t.pc = "resize"
            /\ processingCanvas' = IF ok THEN processingCanvas ELSE native
            /\ inflight' = [inflight EXCEPT ![k] =
                  [t EXCEPT !.pc = "encode",
                            !.pica = IF ok THEN "ok" ELSE "threw",
                            !.resized = IF ok THEN Resized("pica", processingCanvas)
                                        ELSE Resized("native", native)]]
            /\ UNCHANGED <<isBrowser, storageWritable, nameVars, anVars, storeVars, sockVars, compVars,
                           picaInstance, captureInterval, armed, isCapturing, nStarts,
                           nFired, videoSize, stats, statsSubject, callbacks, lastTick,
                           lastFailed, capOut>>

\* compressToWebP settles (SpecCompress has its steps): with a blob, and
\* captureFrame goes on to encode the full-resolution canvas, or with the
\* error of both formats failing, rethrown into captureFrame's catch.
CompressDone ==
    \E k \in 1..Len(inflight), ok \in BOOLEAN :
        LET t == inflight[k]
        IN  /\ t.pc = "encode"
            /\ inflight' = [inflight EXCEPT ![k] =
                  IF ok THEN [t EXCEPT !.pc = "hd", !.pica = "none", !.resized = NoResize]
                  ELSE captureFrameFallback(t, "compress")]
            /\ UNCHANGED <<isBrowser, storageWritable, nameVars, anVars, storeVars, sockVars, compVars,
                           picaInstance, processingCanvas, captureInterval, armed,
                           isCapturing, nStarts, nFired, videoSize, stats, statsSubject,
                           callbacks, lastTick, lastFailed, capOut>>

\* `totalFramesCaptured++; lastCaptureTime = Date.now(); thumbnailsSent++`
FrameCounted(s) ==
    [s EXCEPT !.totalFramesCaptured = @ + 1,
              !.lastCaptureTime = DateNow,
              !.thumbnailsSent = @ + 1]

\* The callbacks as invoked in order, the second only when the first returns.
ThumbCalls(cb) == 1

HDCalls(cb) == IF cb = "onThumbnailReady throws" THEN 0 ELSE 1

Called(cb) ==
    [callbacks EXCEPT !.onThumbnailReady = @ + ThumbCalls(cb), !.onHDReady = @ + HDCalls(cb)]

\* The tick, out of flight: what it did.
Ended(t, pc) == [id |-> t.id, pc |-> pc, why |-> t.why, thumb |-> t.thumb, hd |-> t.hd]

\* The full-resolution blob is there: captureFrame invokes the two callbacks
\* and counts the frame, after which the timer callback runs updateStats. A
\* callback that throws lands in captureFrame's catch like any other error.
HDBlobDone ==
    \E k \in 1..Len(inflight), cb \in CallbackOutcomes :
        LET t == inflight[k]
            called == [t EXCEPT !.thumb = @ + ThumbCalls(cb), !.hd = @ + HDCalls(cb)]
        IN  /\ t.pc = "hd"
            /\ callbacks' = Called(cb)
            /\ IF cb = "returns"
               THEN /\ stats' = FrameCounted(stats)
                    /\ statsSubject' = stats'
                    /\ inflight' = Remove(inflight, k)
                    /\ lastTick' = Ended(called, "done")
               ELSE /\ inflight' = [inflight EXCEPT ![k] =
                          captureFrameFallback(called,
                              IF cb = "onThumbnailReady throws" THEN "onThumbnailReady"
                              ELSE "onHDReady")]
                    /\ UNCHANGED <<stats, statsSubject, lastTick>>
            /\ UNCHANGED <<isBrowser, storageWritable, nameVars, anVars, storeVars, sockVars, compVars,
                           picaInstance, processingCanvas, captureInterval, armed,
                           isCapturing, nStarts, nFired, videoSize, lastFailed, capOut>>

\* A bug: the catch of the timer callback cancels the timers.
TimersCleared(timerIds) == {}

\* The catch of the timer callback: `console.error(...)` and nothing else.
TimersAfterCatch(timerIds) == timerIds

\* The two JPEG blobs of captureFrameFallback are there: it invokes the two
\* callbacks and counts the frame. A callback that throws here ends the tick
\* in the catch of the timer callback, without updateStats.
FallbackBlobsDone ==
    \E k \in 1..Len(inflight), cb \in CallbackOutcomes :
        LET t == inflight[k]
            called == [t EXCEPT !.thumb = @ + ThumbCalls(cb), !.hd = @ + HDCalls(cb)]
        IN  /\ t.pc = "fallback"
            /\ callbacks' = Called(cb)
            /\ inflight' = Remove(inflight, k)
            /\ IF cb = "returns"
               THEN /\ stats' = FrameCounted(stats)
                    /\ statsSubject' = stats'
                    /\ lastTick' = Ended(called, "done")
                    /\ UNCHANGED <<armed, lastFailed>>
               ELSE /\ lastTick' = Ended(called, "failed")
                    /\ lastFailed' = t.id
                    /\ armed' = TimersAfterCatch(armed)
                    /\ UNCHANGED <<stats, statsSubject>>
            /\ UNCHANGED <<isBrowser, storageWritable, nameVars, anVars, storeVars, sockVars, compVars,
                           picaInstance, processingCanvas, captureInterval, isCapturing,
                           nStarts, nFired, videoSize, capOut>>

\* The services as constructed: initializePica has set picaInstance (to null
\* when pica() threw) and createOptimizedCanvas has made the scratch canvas.
CaptureIdle ==
    /\ processingCanvas = NewCanvas
    /\ captureInterval = 0
    /\ armed = {}
    /\ isCapturing = FALSE
    /\ nStarts = 0
    /\ nFired = 0
    /\ videoSize = [width |-> 0, height |-> 0]
    /\ stats = [totalFramesCaptured |-> 0, lastCaptureTime |-> 0, thumbnailsSent |-> 0]
    /\ statsSubject = stats
    /\ callbacks = [onThumbnailReady |-> 0, onHDReady |-> 0]
    /\ inflight = <<>>
    /\ lastTick = NoTick
    /\ lastFailed = 0
    /\ capOut = [op |-> None, again |-> FALSE]

(***************************************************************************)
(* SocketService.messages and ImageAnalysisService: the result dispatcher  *)
(***************************************************************************)

\* Date.now() when the services are constructed.  stats.lastAnalysisTime
\* starts at 0, which is no time the clock shows.
Epoch == 1000

\* The early part of a run: the clock is within EarlyHorizon ms of Epoch.
Early == anNow < Epoch + EarlyHorizon

\* PlateDetectionResult.hasPlate is optional: true, false, or not there.
HasPlateValues == {"true", "false", "undefined"}

\* The initial value of the messages subject.
Null == [seq |-> 0, isNull |-> TRUE, hasPlate |-> "undefined"]

\* The result the seq-th 'analysis-result' event carries.
Result(seq, hasPlate) == [seq |-> seq, isNull |-> FALSE, hasPlate |-> hasPlate]

\* if (result): null is falsy, every object is truthy.
Truthy(r) == ~r.isNull

\* A bug: the test is whether the field is there.
FieldPresent(r) == r.hasPlate # "undefined"

\* if (result.hasPlate): only true is truthy among true, false, undefined.
HasPlate(r) == r.hasPlate = "true"

\* The two subscribers of handleAnalysisResult(): ImageAnalysisService from
\* its constructor, LiveDetectionComponent from ngOnInit.
Subscribers == {"dispatcher", "component"}

\* A bug: the value is stored and no subscriber is called.
NotDelivered(sub, value) == received

\* BehaviorSubject.next(value): the slot takes the value and every current
\* subscriber's callback runs with it, synchronously.
next(sub, value) ==
    [s \in Subscribers |->
        IF s \in sub THEN [last |-> value, count |-> received[s].count + 1]
        ELSE received[s]]

\* A bug: the elapsed time ignores the last send.
SinceEpochZero(t, last) == t

\* Date.now() - this.stats.lastAnalysisTime
Elapsed(t, last) == t - last

\* processingTimes.push(processingTime); if (length > 100) shift()
MaxProcessingTimes == 100

\* A bug: the window is never trimmed.
KeepAll(times) == times

\* processingTimes after the push and the shift.
KeepLast(times) == IF Len(times) > MaxProcessingTimes THEN Tail(times) ELSE times

\* processingTimes.reduce((a, b) => a + b, 0) / processingTimes.length, kept
\* as the fraction it is.
Mean(times) == [sum |-> SumTo(times, Len(times)), count |-> Len(times)]

\* The 'analysis-result' handler: this.messages.next(data).  The dispatcher's
\* subscription runs handleAnalysisResult(result) when the result is truthy;
\* the component's stores it.  A millisecond passes before each event, and
\* time passes in no other way.
ResultArrives ==
    \E hp \in HasPlateValues :
        LET t == anNow + 1
            r == Result(nArrived + 1, hp)
            handled == "dispatcher" \in subscribed /\ Truthy(r)
            times == KeepLast(Append(processingTimes, Elapsed(t, lastAnalysisTime)))
        IN  /\ nArrived < MaxResults
            /\ hp # "false" => Early
            /\ anNow' = t
            /\ nArrived' = nArrived + 1
            /\ messages' = r
            /\ received' = next(subscribed, r)
            /\ lastResult' = [result |-> r, at |-> t, handled |-> handled]
            /\ IF handled
                 THEN /\ processingTimes' = times
                      /\ averageProcessingTime' = Mean(times)
                      /\ IF HasPlate(r)
                           THEN /\ platesDetected' = platesDetected + 1
                                /\ cameraDetectedPlates' = cameraDetectedPlates + 1
                           ELSE UNCHANGED <<platesDetected, cameraDetectedPlates>>
                 ELSE UNCHANGED <<processingTimes, averageProcessingTime,
                                  platesDetected, cameraDetectedPlates>>
            /\ UNCHANGED <<isBrowser, storageWritable, nameVars, storeVars, sockVars,
                           compVars, capVars, subscribed, lastAnalysisTime, sends>>

\* LiveDetectionComponent.ngOnInit: handleAnalysisResult().subscribe(...).  The
\* subject replays its current value to the new subscriber.
Subscribe ==
    /\ Early
    /\ "component" \notin subscribed
    /\ subscribed' = subscribed \cup {"component"}
    /\ received' = [received EXCEPT !["component"] = [last |-> messages, count |-> 1]]
    /\ UNCHANGED <<isBrowser, storageWritable, nameVars, storeVars, sockVars, compVars,
                   capVars, anNow, messages, nArrived, processingTimes,
                   averageProcessingTime, platesDetected, lastAnalysisTime,
                   cameraDetectedPlates, sends, lastResult>>

\* analyzeThumbnail as the running analysis calls it, early in the run, with
\* the WebP thumbnail the capture delivers.
WebPThumbnails == {b \in Blobs : b.type = "image/webp"}
analyzeThumbnailEarly == Early /\ AnalyzeThumbnail(MaxAnalyses, WebPThumbnails)

\* The channel once the constructor's socket has had its 'connect' event.
ChannelConnected ==
    /\ sockets = <<"connected">>
    /\ socket = 1
    /\ connected = TRUE
    /\ reconnectAttempts = 0
    /\ timers = NoTimers
    /\ scheduled = <<>>
    /\ reconn = NoReconn
    /\ lost = FALSE
    /\ reads = <<>>
    /\ wire = <<>>
    /\ lastSend = [accepted |-> FALSE, ret |-> None]
    /\ imagesAnalyzed = 0

\* The state after construction: the dispatcher subscribed in its constructor
\* and was handed the subject's initial null, which it skips.
AnalysisIdle ==
    /\ anNow = Epoch
    /\ messages = Null
    /\ nArrived = 0
    /\ subscribed = {"dispatcher"}
    /\ received = [s \in Subscribers |->
                      IF s = "dispatcher" THEN [last |-> Null, count |-> 1]
                      ELSE [last |-> Null, count |-> 0]]
    /\ processingTimes = <<>>
    /\ averageProcessingTime = [sum |-> 0, count |-> 0]
    /\ platesDetected = 0
    /\ lastAnalysisTime = 0
    /\ cameraDetectedPlates = 0
    /\ sends = <<>>
    /\ lastResult = [result |-> Null, at |-> 0, handled |-> FALSE]

(***************************************************************************)
(* Specifications                                                          *)
(***************************************************************************)

InitStore ==
    /\ isBrowser \in BOOLEAN
    /\ storageWritable \in BOOLEAN
    /\ ~isBrowser => ~storageWritable
    /\ StoreConstructed
    /\ SocketIdle
    /\ CompressIdle
    /\ FilenameIdle
    /\ picaInstance = "pica"
    /\ CaptureIdle
    /\ AnalysisIdle

NextStore ==
    \/ saveHDImageInMemory
    \/ saveHDImageToDevice
    \/ clearOldImages
    \/ clearAllImages
    \/ Tick

SpecStore == InitStore /\ [][NextStore]_vars

InitSocket ==
    /\ isBrowser \in BOOLEAN
    /\ storageWritable = isBrowser
    /\ StoreConstructed
    /\ SocketConstructed
    /\ CompressIdle
    /\ FilenameIdle
    /\ picaInstance = "pica"
    /\ CaptureIdle
    /\ AnalysisIdle

NextSocket ==
    \/ OnConnect
    \/ OnDisconnect
    \/ ManagerGivesUp
    \/ connectToSocket
    \/ disconnect
    \/ analyzeThumbnail
    \/ FileReaderDone

SpecSocket == InitSocket /\ [][NextSocket]_vars

InitCompress ==
    /\ isBrowser = TRUE
    /\ storageWritable = TRUE
    /\ StoreConstructed
    /\ SocketIdle
    /\ CompressIdle
    /\ FilenameIdle
    /\ picaInstance = "pica"
    /\ CaptureIdle
    /\ AnalysisIdle

NextCompress ==
    \/ compressToWebP
    \/ SearchEncode
    \/ FinalEncode
    \/ FallbackEncode

SpecCompress == InitCompress /\ [][NextCompress]_vars

InitFilename ==
    /\ isBrowser = TRUE
    /\ storageWritable = TRUE
    /\ StoreConstructed
    /\ SocketIdle
    /\ CompressIdle
    /\ detectedPlates \in PlateLists
    /\ date \in Dates
    /\ filename = <<>>
    /\ picaInstance = "pica"
    /\ CaptureIdle
    /\ AnalysisIdle

NextFilename == GenerateFilenameCall

SpecFilename == InitFilename /\ [][NextFilename]_vars

InitCapture ==
    /\ isBrowser = TRUE
    /\ storageWritable = TRUE
    /\ StoreConstructed
    /\ SocketIdle
    /\ CompressIdle
    /\ FilenameIdle
    /\ picaInstance \in {"pica", "null"}
    /\ CaptureIdle
    /\ AnalysisIdle

NextCapture ==
    \/ startCapture
    \/ stopCapture
    \/ TimerFires
    \/ BitmapDone
    \/ PicaDone
    \/ CompressDone
    \/ HDBlobDone
    \/ FallbackBlobsDone

SpecCapture == InitCapture /\ [][NextCapture]_vars

InitAnalysis ==
    /\ isBrowser = TRUE
    /\ storageWritable = TRUE
    /\ StoreConstructed
    /\ ChannelConnected
    /\ CompressIdle
    /\ FilenameIdle
    /\ picaInstance = "pica"
    /\ CaptureIdle
    /\ AnalysisIdle

NextAnalysis ==
    \/ analyzeThumbnailEarly
    \/ Subscribe
    \/ ResultArrives

SpecAnalysis == InitAnalysis /\ [][NextAnalysis]_vars

(***************************************************************************)
(* Properties                                                              *)
(***************************************************************************)

\* C1: after any sequence of saveHDImageInMemory, saveHDImageToDevice,
\* clearOldImages and clearAllImages the record list holds at most
\* MAX_STORED_IMAGES = 100 records.
C1_AtMostMaxStored == Len(storedImages) <= MAX_STORED_IMAGES

\* An add has overflowed the list: more images were added than the list holds.
C1_Witness ==
    /\ Len(storedImages) = MAX_STORED_IMAGES
    /\ runLen > MAX_STORED_IMAGES

\* C2: after n > 100 add calls with strictly increasing timestamps and no
\* prune or clear in between, the record list is exactly the 100 most recently
\* added records, newest first, and the first n - 100 added are absent.
C2_EvictsOldest ==
    (runLen > MAX_STORED_IMAGES /\ runStrict) =>
        /\ Len(storedImages) = MAX_STORED_IMAGES
        /\ \A i \in 1..Len(storedImages) :
              /\ storedImages[i].blob = nAdded - i + 1
              /\ storedImages[i].blob > nAdded - MAX_STORED_IMAGES
              /\ i > 1 => storedImages[i].timestamp < storedImages[i - 1].timestamp

\* 102 adds in 102 different milliseconds: two records have been evicted.
C2_Witness == runLen = MAX_STORED_IMAGES + 2 /\ runStrict

\* C3: the reconnect-attempt counter is between 0 and maxReconnectAttempts in
\* every reachable state, and attemptReconnect sets a timer only when the
\* counter was below maxReconnectAttempts on entry.
C3_AttemptsBounded ==
    /\ reconnectAttempts \in 0..maxReconnectAttempts
    /\ reconn.delay # 0 => reconn.entry < maxReconnectAttempts

\* The fifth attempt has been scheduled, from a counter of 4.
C3_Witness ==
    /\ reconnectAttempts = maxReconnectAttempts
    /\ reconn.entry = maxReconnectAttempts - 1
    /\ reconn.delay = BackoffDelay(maxReconnectAttempts)

\* No handler of the channel can run any more unless a socket connects.
Quiescent ==
    /\ PendingTimers = 0
    /\ \A i \in 1..Len(sockets) : sockets[i] # "connected"

\* C4: when the channel disconnects while connected and the remote stays
\* unreachable (no 'connect' event follows), reconnect is attempted exactly 5
\* times, the Nth attempt scheduled 2000 * N ms after it is triggered, and the
\* channel then gives up: once nothing is pending any more, the five timers
\* have been set.
C4_FiveAttemptsThenGiveUp ==
    (lost /\ Quiescent) =>
        scheduled = [n \in 1..maxReconnectAttempts |-> BackoffMs * n]

\* A step that sets a reconnect timer.
SetsTimer == Len(scheduled') > Len(scheduled)

\* C5: once the reconnect attempts are exhausted (counter = 5) the channel
\* stops retrying: no step from such a state sets a reconnect timer, and with
\* no timer left none opens a socket.
C5_NoRetryWhenExhausted ==
    [][reconnectAttempts = maxReconnectAttempts =>
          /\ ~SetsTimer
          /\ PendingTimers = 0 => Len(sockets') = Len(sockets)]_vars

\* attemptReconnect was called with the counter at 5, did nothing, and no
\* timer is left.
C5_Witness ==
    /\ reconnectAttempts = maxReconnectAttempts
    /\ reconn.called /\ reconn.entry = maxReconnectAttempts /\ reconn.delay = 0
    /\ PendingTimers = 0

\* The ConnectionState of the specification read off the channel: connected
\* is the flag behind isConnected$(); connecting is a socket opened by
\* connectToSocket that has not connected yet.
ConnectionState ==
    IF connected THEN "connected"
    ELSE IF socket # 0 /\ sockets[socket] = "opening" THEN "connecting"
    ELSE "disconnected"

\* C6: the connection state changes only along disconnected -> connecting ->
\* connected -> disconnected (a connect that fails goes back from connecting to
\* disconnected); it never goes directly from disconnected to connected.
C6_StateCycle ==
    [][\/ ConnectionState' = ConnectionState
       \/ <<ConnectionState, ConnectionState'>> \in
              {<<"disconnected", "connecting">>, <<"connecting", "connected">>,
               <<"connected", "disconnected">>, <<"connecting", "disconnected">>}]_vars

\* C7: one logical connection: at most one underlying socket is live at a
\* time, so never two of them connected together.
C7_OneLiveSocket ==
    Cardinality({i \in 1..Len(sockets) : sockets[i] = "connected"}) <= 1

\* A step of analyzeThumbnail, that is a call of sendImageForAnalysis, taken
\* while this.socket is missing or not connected.
SendWhileNotConnected ==
    /\ imagesAnalyzed' # imagesAnalyzed
    /\ ~(socket # 0 /\ sockets[socket] = "connected")

\* C8 as amended: sendImageForAnalysis called while the channel is not
\* connected is a no-op: no 'analyze-image' message is emitted, no read is
\* started, nothing is queued or retried. The failure is only logged: the call
\* gives its caller what an accepted send gives it, and analyzeThumbnail
\* counts the image as analyzed.
C8_DroppedSendSilent ==
    [][SendWhileNotConnected =>
          /\ wire' = wire /\ reads' = reads
          /\ lastSend'.ret = SendResult(TRUE)
          /\ imagesAnalyzed' = imagesAnalyzed + 1]_vars

\* A send was refused by the guard.
C8_Witness == lastSend.ret # None /\ ~lastSend.accepted /\ imagesAnalyzed > 0

\* C8 as stated: the refused send emits and queues nothing, and the caller can
\* tell it failed: it gets something an accepted send does not give.
C8_DroppedSendReported ==
    [][SendWhileNotConnected =>
          /\ wire' = wire /\ reads' = reads
          /\ lastSend'.ret # SendResult(TRUE)]_vars

\* C9: every outbound 'analyze-image' message has size equal to the byte
\* length of its data field.
C9_SizeIsDataLength ==
    \A k \in 1..Len(wire) : wire[k].payload.size = Len(wire[k].payload.data)

\* A message with a non-empty data field has been emitted.
C9_Witness == \E k \in 1..Len(wire) : Len(wire[k].payload.data) > 0

\* The three ways out the claim allows, for the blob returned.
BudgetFloorOrAttempts ==
    \/ result.size <= TARGET_SIZE_KB * 1024
    \/ currentQuality < QualityFloor
    \/ attempts = maxAttempts

\* C10 as amended: when no WebP encode fails, the image returned by the
\* compressor is within the budget, or the quality of the search has dropped
\* below the floor 0.3, or the attempt count is 5. (When a WebP encode fails
\* the JPEG of the fallback is returned whatever its size.)
C10_SearchResultBounded ==
    (cPc = "done" /\ result.format = "image/webp") => BudgetFloorOrAttempts

\* The search has returned an image over the budget before its fifth attempt,
\* because the quality fell below the floor.
C10_Witness ==
    /\ cPc = "done" /\ result.format = "image/webp"
    /\ result.size > TARGET_SIZE_KB * 1024
    /\ attempts < maxAttempts

\* C10 as stated: for every sequence of encode outcomes the image returned
\* satisfies one of the three.
C10_AnyResultBounded == cPc = "done" => BudgetFloorOrAttempts

\* The encodes of the call made in the preferred format (WebP): those of the
\* loop and the one after it.
WebPEncodes == {k \in 1..Len(encodes) : encodes[k].format = "image/webp"}

\* C11: for any initial quality in (0,1], one compress call performs at most
\* maxAttempts = 5 encodes in the preferred format during its quality search.
C11_AtMostMaxAttemptsEncodes == Cardinality(WebPEncodes) <= maxAttempts

\* C12 as amended: called with a quality of at least 0.3, the compressor never
\* encodes below the floor during the quality search: every WebP encode, in
\* the loop and after it, uses a quality >= 0.3. (The JPEG of the format
\* fallback is encoded at min(0.6 * quality, 0.5), which is below 0.3 for a
\* quality below 0.5.)
C12_SearchAboveFloor ==
    quality >= QualityFloor =>
        \A k \in WebPEncodes : encodes[k].quality >= QualityFloor

\* The search went through its five turns and the encode after the loop, down
\* to a quality within one decay of the floor.
C12_Witness ==
    /\ cPc = "done"
    /\ Cardinality(WebPEncodes) = maxAttempts + 1
    /\ DecayQuality(encodes[Len(encodes)].quality) < QualityFloor

\* C12 as stated: every encode issued by a compress call, in the quality
\* search and in the format fallback, uses a quality >= 0.3.
C12_EveryEncodeAboveFloor ==
    \A k \in 1..Len(encodes) : encodes[k].quality >= QualityFloor

\* The qualities of the encodes made so far, in order.
QualitiesUsed == [k \in 1..Len(encodes) |-> encodes[k].quality]

\* C13: the k-th encode of the quality search uses quality q0 * 0.8^(k-1)
\* (the first uses q0, each later one 0.8 times the one before), so the
\* sequence never increases; with q0 = 0.75 and every attempt over the
\* budget the qualities used are 0.75, 0.6, 0.48, 0.384, 0.3072 and the search
\* then stops.
C13_QualityFollowsDecay ==
    /\ \A k \in WebPEncodes :
          /\ k = 1 => encodes[k].quality = quality
          /\ k > 1 => /\ encodes[k].quality * 10 = encodes[k - 1].quality * 8
                      /\ encodes[k].quality <= encodes[k - 1].quality
    /\ (/\ cPc = "done"
        /\ quality = 75 * (QScale \div 100)
        /\ result.format = "image/webp"
        /\ result.size > TARGET_SIZE_KB * 1024) =>
           QualitiesUsed = <<7500000, 6000000, 4800000, 3840000, 3072000>>

\* Called with 0.75, the search has ended with every encode over the budget.
C13_Witness ==
    /\ cPc = "done"
    /\ quality = 75 * (QScale \div 100)
    /\ result.format = "image/webp"
    /\ result.size > TARGET_SIZE_KB * 1024
    /\ Len(encodes) = 5

\* A step that is a call of clearOldImages.
ClearOldImagesStep == storeOut'.op = "clearOldImages" /\ now' = now

After(t, cutoff) == t > cutoff

AtOrAfter(t, cutoff) == t >= cutoff

\* The call of this step removed exactly the records Keep rejects: the records
\* it accepts keep their place in the list and their cache entry, the others
\* are gone from the list and from the cache.
PruneKeepsExactly(Keep(_, _)) ==
    LET cutoff == storeOut'.cutoffTime
        kept == {i \in 1..Len(storedImages) : Keep(storedImages[i].timestamp, cutoff)}
    IN  /\ \E maxAge \in MaxAges : cutoff = now - maxAge
        /\ Len(storedImages') = Cardinality(kept)
        /\ \A i \in 1..Len(storedImages) :
              LET id == storedImages[i].id
              IN  IF Keep(storedImages[i].timestamp, cutoff)
                  THEN /\ i <= Len(storedImages')
                       /\ storedImages'[i] = storedImages[i]
                       /\ (id \in DOMAIN imageCache') = (id \in DOMAIN imageCache)
                       /\ id \in DOMAIN imageCache => imageCache'[id] = imageCache[id]
                  ELSE id \notin DOMAIN imageCache'

\* C14 as amended: clearOldImages(maxAge) called at time now removes exactly
\* the records whose timestamp is less than or equal to now - maxAge; every
\* record with a timestamp greater than now - maxAge remains, with its
\* position in the list and its cache entry unchanged.
C14_PruneRemovesUpToCutoff ==
    [][ClearOldImagesStep => PruneKeepsExactly(After)]_vars

\* A call removed records and kept others, the oldest of them one millisecond
\* after the cutoff.
C14_Witness ==
    /\ storeOut.op = "clearOldImages" /\ storeOut.removed
    /\ storedImages # <<>>
    /\ storedImages[Len(storedImages)].timestamp = storeOut.cutoffTime + 1

\* C14 as stated: the call removes exactly the records whose timestamp is
\* strictly less than now - maxAge; a record with timestamp >= now - maxAge
\* remains, with its position in the list and its cache entry unchanged.
C14_PruneRemovesOlderOnly ==
    [][ClearOldImagesStep => PruneKeepsExactly(AtOrAfter)]_vars

\* C15: clearOldImages is idempotent: a second call with the same cutoff, with
\* no add in between, removes nothing and leaves the record list and the byte
\* cache unchanged.
C15_PruneIdempotent ==
    [][(ClearOldImagesStep /\ storeOut'.again) =>
          /\ ~storeOut'.removed
          /\ storedImages' = storedImages
          /\ imageCache' = imageCache]_vars

\* A call that removed records, then a call with the same cutoff, on a list
\* that still holds records.
C15_Witness ==
    /\ storeOut.op = "clearOldImages" /\ storeOut.again
    /\ pruned /\ runLen = 0
    /\ storedImages # <<>>

\* C16: no two records that are in the store at the same time share an id,
\* including records added within the same millisecond.
C16_UniqueIds ==
    \A i, j \in 1..Len(storedImages) :
        i # j => storedImages[i].id # storedImages[j].id

\* C19: clearAllImages leaves both the record list and the byte cache empty,
\* whatever the state before the call.
C19_ClearAllEmpties ==
    storeOut.op = "clearAllImages" =>
        /\ Len(storedImages) = 0
        /\ DOMAIN imageCache = {}

\* clearAllImages was called on a store that held records.
C19_Witness == storeOut.op = "clearAllImages" /\ storeOut.removed

\* The slot holds the record list, in order, each record without its blob.
SlotMirrorsList ==
    /\ localStorageSlot.present
    /\ Len(localStorageSlot.items) = Len(storedImages)
    /\ \A i \in 1..Len(storedImages) :
          LET meta == localStorageSlot.items[i]
          IN  /\ DOMAIN meta = DOMAIN storedImages[i] \ {"blob"}
              /\ \A f \in DOMAIN meta : meta[f] = storedImages[i][f]

\* C20 as amended: in a browser whose localStorage accepts the write, after
\* every mutation of the store (add, prune, clear) the persisted metadata slot
\* holds exactly the current record list, in order, with the raw byte field
\* removed from each record. (Outside a browser, or when the write throws, the
\* slot is left as it was.)
C20_SlotMirrorsListWhenWritten ==
    (storeOut.op # None /\ isBrowser /\ storageWritable) => SlotMirrorsList

\* Adds, then a prune that removed records and left some, written to the slot.
C20_Witness ==
    /\ isBrowser /\ storageWritable
    /\ storeOut.op = "clearOldImages" /\ storeOut.removed
    /\ Len(storedImages) >= 2

\* C20 as stated: after every mutation the slot holds exactly the current
\* record list, without the raw bytes.
C20_SlotAlwaysMirrorsList == storeOut.op # None => SlotMirrorsList

\* The length of "YYYYMMDD_HH-MM-SS".
StampLength == 8 + 1 + 8

NameTail(name) == SubSeq(name, Len(name) - StampLength - 4, Len(name))

\* The plate segment of a name built with plates: what stands between
\* "IRIX_PLACA_" and the "_" before the date.
PlateSegment(name) == SubSeq(name, 12, Len(name) - StampLength - 5)

UpperAlphanumeric == Range(UpperCase) \cup Range(Digits)

\* C17: in a generated filename the plate segment contains only upper-case
\* alphanumeric characters and is at most 20 characters long, for every list
\* of plates.
C17_PlateSegmentSanitized ==
    (filename # <<>> /\ PlatesKnown(detectedPlates)) =>
        LET segment == PlateSegment(filename)
        IN  /\ Len(segment) <= 20
            /\ \A i \in 1..Len(segment) : segment[i] \in UpperAlphanumeric

\* A name was built from plates that hold characters to remove and more than
\* 20 characters to keep.
C17_Witness ==
    /\ filename # <<>> /\ PlatesKnown(detectedPlates)
    /\ \E k \in 1..Len(detectedPlates.list) :
          \E i \in 1..Len(detectedPlates.list[k]) :
              ~IsAlphanumeric(detectedPlates.list[k][i])
    /\ Len(SelectSeq(join(detectedPlates.list, <<>>), IsAlphanumeric)) > 20
    /\ Len(PlateSegment(filename)) = 20

\* The number a string of decimal digits writes, -1 for any other string.
RECURSIVE Value(_)
Value(s) ==
    IF Len(s) = 0 THEN 0
    ELSE LET last == s[Len(s)]
             head == Value(SubSeq(s, 1, Len(s) - 1))
         IN  IF last \in Range(Digits) /\ head >= 0
             THEN 10 * head + (CHOOSE n \in 0..9 : Digits[n + 1] = last)
             ELSE -1

\* s is "_YYYYMMDD_HH-MM-SS.jpg" for the date d.
IsNameTail(s, d) ==
    /\ Len(s) = StampLength + 5
    /\ s[1] = "_"
    /\ Value(SubSeq(s, 2, 5)) = d.fullYear
    /\ Value(SubSeq(s, 6, 7)) = d.month + 1
    /\ Value(SubSeq(s, 8, 9)) = d.date
    /\ s[10] = "_"
    /\ Value(SubSeq(s, 11, 12)) = d.hours
    /\ s[13] = "-"
    /\ Value(SubSeq(s, 14, 15)) = d.minutes
    /\ s[16] = "-"
    /\ Value(SubSeq(s, 17, 18)) = d.seconds
    /\ SubSeq(s, 19, 22) = <<".", "j", "p", "g">>

\* The name follows the convention, with the given label for an image
\* without plates.
FollowsConvention(label) ==
    IF PlatesKnown(detectedPlates)
    THEN /\ Len(filename) >= 11 + StampLength + 5
         /\ SubSeq(filename, 1, 11) = <<"I", "R", "I", "X", "_", "P", "L", "A", "C", "A", "_">>
         /\ \A i \in 1..Len(PlateSegment(filename)) :
               PlateSegment(filename)[i] \in UpperAlphanumeric
         /\ IsNameTail(NameTail(filename), date)
    ELSE /\ Len(filename) = 4 + Len(label) + StampLength + 5
         /\ SubSeq(filename, 1, 4) = <<"I", "R", "I", "X">>
         /\ SubSeq(filename, 5, 4 + Len(label)) = label
         /\ IsNameTail(NameTail(filename), date)

\* C18 as amended: generateFilename yields
\* IRIX_PLACA_<SANITIZED_PLATES>_<YYYYMMDD_HH-MM-SS>.jpg when plates are known
\* (detectedPlates present and non-empty) and
\* IRIX_VEHÍCULO_<YYYYMMDD_HH-MM-SS>.jpg, with an accented Í, otherwise.
C18_NamingConventionAccented ==
    filename # <<>> =>
        FollowsConvention(<<"_", "V", "E", "H", "Í", "C", "U", "L", "O">>)

\* Both kinds of name: this one without plates, in a month and at a time
\* that need padding.
C18_Witness ==
    /\ filename # <<>>
    /\ ~PlatesKnown(detectedPlates)
    /\ detectedPlates.defined
    /\ date.month + 1 < 10 /\ date.hours < 10

\* C18 as stated: PREFIX_PLACA_<SANITIZED_PLATES>_<YYYYMMDD_HH-MM-SS>.<ext>
\* when plates are known and PREFIX_VEHICULO_<YYYYMMDD_HH-MM-SS>.<ext>
\* otherwise.
C18_NamingConvention ==
    filename # <<>> =>
        FollowsConvention(<<"_", "V", "E", "H", "I", "C", "U", "L", "O">>)

\* A socket fires its 'connect' event / its 'disconnect' event in this step.
ConnectEvent ==
    \E i \in 1..Len(sockets) : sockets[i] # "connected" /\ sockets'[i] = "connected"

DisconnectEvent ==
    \E i \in 1..Len(sockets) : sockets[i] = "connected" /\ sockets'[i] # "connected"

\* C25: a successful connect sets the state to connected and resets the
\* reconnect counter to 0; every disconnect event sets the state to
\* disconnected and triggers a reconnect attempt, that is a call of
\* attemptReconnect: below five attempts it counts one more and sets the timer
\* of 2000 ms times the new count, at five it only logs.
C25_ConnectResetsDisconnectRetries ==
    [][/\ ConnectEvent => (connected' /\ reconnectAttempts' = 0)
       /\ DisconnectEvent =>
             /\ ~connected'
             /\ reconn'.called /\ reconn'.entry = reconnectAttempts
             /\ IF reconnectAttempts < maxReconnectAttempts
                THEN /\ reconnectAttempts' = reconnectAttempts + 1
                     /\ SetsTimer
                     /\ reconn'.delay = BackoffMs * (reconnectAttempts + 1)
                     /\ PendingTimers' = PendingTimers + 1
                ELSE /\ ~SetsTimer
                     /\ reconnectAttempts' = reconnectAttempts]_vars

\* The socket opened by the first reconnect timer has connected, which took
\* the counter from 1 back to 0, and has then disconnected, which scheduled
\* attempt 1 again.
C25_Witness ==
    /\ socket = 2 /\ sockets[2] = "reconnecting"
    /\ ~connected /\ lost
    /\ reconn.called /\ reconn.entry = 0 /\ reconn.delay = BackoffDelay(1)
    /\ reconnectAttempts = 1

\* The encodes of the call made in the fallback format (JPEG), and its WebP
\* encodes that failed: canvas.toBlob gave null or an empty blob.
JpegEncodes == {k \in 1..Len(encodes) : encodes[k].format = "image/jpeg"}

FailedWebPEncodes == {k \in WebPEncodes : encodes[k].size = 0}

\* C26: if an encode in the preferred format fails, the compressor retries
\* exactly once in JPEG at a quality of at most 0.5: the failed WebP encode is
\* followed by one JPEG encode and nothing else, and there is no JPEG encode
\* otherwise. If the JPEG encode fails too the call fails with an error, and
\* otherwise the call returns the JPEG blob.
C26_JpegRetryOnce ==
    /\ Cardinality(JpegEncodes) <= 1
    /\ \A k \in FailedWebPEncodes :
          \/ k = Len(encodes) /\ cPc = "fallback"
          \/ k + 1 = Len(encodes) /\ k + 1 \in JpegEncodes
    /\ \A k \in JpegEncodes :
          /\ k = Len(encodes) /\ k - 1 \in FailedWebPEncodes
          /\ encodes[k].quality <= 5 * (QScale \div 10)
          /\ IF encodes[k].size > 0
             THEN cPc = "done" /\ result = encodes[k]
             ELSE cPc = "failed" /\ result = NoBlob
    /\ cPc = "failed" => JpegEncodes # {}

\* Called with quality 1.0, the call has returned the JPEG of the fallback,
\* encoded at the cap 0.5, after a WebP encode failed in the middle of the
\* search.
C26_Witness ==
    /\ cPc = "done" /\ result.format = "image/jpeg"
    /\ quality = QScale /\ result.quality = 5 * (QScale \div 10)
    /\ Len(encodes) >= 3

\* C27: if every encode of the quality search succeeds but exceeds the
\* budget, the call returns the last encode made, which is the one at the
\* lowest quality tried, and raises no error.
C27_AllOverBudgetReturnsLast ==
    (/\ cPc \in {"done", "failed"}
     /\ \A k \in 1..Len(encodes) :
           encodes[k].format = "image/webp" /\ encodes[k].size > TARGET_SIZE_KB * 1024) =>
        /\ cPc = "done"
        /\ Len(encodes) > 0
        /\ result = encodes[Len(encodes)]
        /\ \A k \in 1..Len(encodes) : result.quality <= encodes[k].quality

\* Called with quality 1.0, the search made its five turns and the encode
\* after the loop, all over the budget, and the call has returned.
C27_Witness ==
    /\ cPc = "done"
    /\ Len(encodes) = maxAttempts + 1
    /\ \A k \in 1..Len(encodes) :
          encodes[k].format = "image/webp" /\ encodes[k].size > TARGET_SIZE_KB * 1024
    /\ result.quality < quality

\* C21: a capture tick in flight when stopCapture is called and completing
\* afterward is discarded: while the scheduler is stopped, from stopCapture
\* to the next startCapture, totalFramesCaptured, thumbnailsSent and
\* lastCaptureTime do not change and no callback is invoked.
C21_StoppedSchedulerQuiet ==
    [][(~isCapturing /\ ~isCapturing') =>
          (stats' = stats /\ callbacks' = callbacks)]_vars

\* The ticks that hold the scratch canvas: Pica is resizing into it, or
\* compressToWebP is encoding from it.
CanvasUsers == {k \in 1..Len(inflight) : inflight[k].pc \in {"resize", "encode"}}

\* C22: the scratch canvas is used by at most one encode at a time: no two
\* ticks in flight resize into or encode from processingCanvas together.
C22_OneCanvasUser == Cardinality(CanvasUsers) <= 1

\* A step that is a call of stopCapture: no tick moves in it.
StopCaptureStep ==
    /\ capOut'.op = "stopCapture"
    /\ UNCHANGED <<inflight, lastTick, nFired>>

\* C23: stopCapture cancels the timer and leaves the scheduler idle (no timer
\* armed, isCapturing false, counters unchanged), and it is idempotent: called
\* on an idle scheduler, which is where a call of it leaves the scheduler, it
\* changes nothing.
C23_StopCaptureIdempotent ==
    [][StopCaptureStep =>
          /\ armed' = {} /\ captureInterval' = 0 /\ ~isCapturing'
          /\ stats' = stats /\ callbacks' = callbacks
          /\ capOut'.again =>
                UNCHANGED <<armed, captureInterval, isCapturing, statsSubject,
                            processingCanvas>>]_vars

\* stopCapture has been called on a scheduler that was already stopped, after
\* a capture that had counted a frame.
C23_Witness ==
    /\ capOut.op = "stopCapture" /\ capOut.again
    /\ nStarts > 0 /\ stats.totalFramesCaptured > 0
    /\ armed = {} /\ ~isCapturing

\* A step in which a tick raises an exception: it enters captureFrame's catch
\* or ends in the catch of the timer callback.
TickRaises ==
    \/ lastFailed' # lastFailed
    \/ /\ Len(inflight') = Len(inflight)
       /\ \E k \in 1..Len(inflight) :
             inflight[k].pc # "fallback" /\ inflight'[k].pc = "fallback"

\* C24: a failure in one capture tick never stops the scheduler: the exception
\* is caught (the tick goes on in the fallback or ends), the periodic timer
\* stays armed and the scheduler stays in the state it was, so the next tick
\* runs.
C24_TickFailureKeepsTimer ==
    [][TickRaises =>
          /\ armed' = armed
          /\ captureInterval' = captureInterval
          /\ isCapturing' = isCapturing]_vars

\* A tick ended in the catch of the timer callback, and the tick fired after
\* it has run to its end with the timer still armed.
C24_Witness ==
    /\ lastFailed > 0
    /\ lastTick.id > lastFailed /\ lastTick.pc = "done"
    /\ armed # {} /\ isCapturing

\* C28: a failure of the high-quality resize is never surfaced: whenever Pica
\* is unavailable or throws (or the source canvas has no 2D context),
\* resizeImageBitmap returns the result of the native fallback resize at the
\* target geometry, and the tick goes on to compress it.
C28_ResizeFailureRecovered ==
    \A k \in 1..Len(inflight) :
        inflight[k].pica \in {"unavailable", "threw", "noContext"} =>
            /\ inflight[k].pc = "encode"
            /\ inflight[k].resized =
                   [via |-> "native", width |-> TargetSize, height |-> TargetSize]

\* Pica threw in the resize of a tick, and the tick is compressing the canvas
\* the native resize gave back.
C28_Witness ==
    \E k \in 1..Len(inflight) :
        /\ inflight[k].pica = "threw"
        /\ inflight[k].resized.via = "native"

\* The thumbnail generation of the tick failed: createImageBitmap or
\* compressToWebP rejected.
ThumbnailFailed(t) == t.why \in {"bitmap", "compress"}

TickWithoutFrame ==
    /\ nFired' = nFired + 1
    /\ (videoSize'.width = 0 \/ videoSize'.height = 0)

\* C30: a tick in which the frame dimensions are unavailable is skipped
\* silently: no callback is invoked, no encode is started (no tick is in
\* flight for it and the scratch canvas is not touched), and
\* totalFramesCaptured, thumbnailsSent and lastCaptureTime are unchanged.
C30_TickWithoutFrameSkipped ==
    [][TickWithoutFrame =>
          /\ callbacks' = callbacks
          /\ inflight' = inflight /\ processingCanvas' = processingCanvas
          /\ stats' = stats
          /\ lastTick'.pc = "skipped" /\ lastTick'.id = nFired']_vars

\* A tick was skipped after an earlier tick had delivered and counted a
\* frame.
C30_Witness ==
    /\ lastTick.pc = "skipped"
    /\ stats.totalFramesCaptured > 0 /\ callbacks.onThumbnailReady > 0

\* C31: within one capture tick each of onThumbnailReady and onHDReady is
\* invoked at most once and totalFramesCaptured is incremented at most once
\* (by one, in the step that ends the tick), also when a callback or a later
\* step of the tick throws.
C31_CallbacksOncePerTick ==
    [][/\ \A k \in 1..Len(inflight') :
             inflight'[k].thumb <= 1 /\ inflight'[k].hd <= 1
       /\ lastTick'.thumb <= 1 /\ lastTick'.hd <= 1
       /\ stats'.totalFramesCaptured > stats.totalFramesCaptured =>
             /\ stats'.totalFramesCaptured = stats.totalFramesCaptured + 1
             /\ Len(inflight') = Len(inflight) - 1
             /\ lastTick'.pc = "done"]_vars

\* A step that is a call of startCapture.
StartCaptureStep == nStarts' = nStarts + 1

\* C32: after any sequence of startCapture and stopCapture calls at most one
\* periodic capture timer is armed; startCapture while already capturing
\* cancels the previous timer and arms a new one.
C32_AtMostOneTimer ==
    [][/\ Cardinality(armed') <= 1
       /\ StartCaptureStep =>
             /\ armed' = {captureInterval'}
             /\ captureInterval' \notin armed
             /\ captureInterval # 0 => captureInterval \notin armed']_vars

\* startCapture has been called while the timer of the first call was armed:
\* the second timer is the only one armed.
C32_Witness ==
    /\ capOut.op = "startCapture" /\ capOut.again
    /\ nStarts = 2 /\ armed = {2} /\ captureInterval = 2

\* C33: after any sequence of add, prune and clear operations the set of ids
\* keyed in the byte cache equals the set of ids of the records in the list,
\* so that every listed record can be retrieved by downloadImageById.
C33_CacheIdsAreListIds == DOMAIN imageCache = SeqIds(storedImages)

\* C34: every 'analyze-image' message is emitted while the channel is
\* connected: a send whose blob read completes after the channel has
\* disconnected does not emit, and so nothing is buffered for delivery after a
\* reconnect.
C34_EmitOnlyWhileConnected == \A k \in 1..Len(wire) : wire[k].sent

\* A step in which this.socket is closed: a call of disconnect() (or the
\* manager of this.socket giving up, which sets no timer either).
ClientDisconnectStep ==
    /\ socket # 0
    /\ sockets[socket] # "closed" /\ sockets'[socket] = "closed"

\* C35: after the client calls disconnect() the channel stays disconnected:
\* the call schedules no reconnect timer, counts no reconnect attempt and opens
\* no socket.
C35_ClientDisconnectFinal ==
    [][ClientDisconnectStep =>
          /\ ~connected'
          /\ ~SetsTimer /\ PendingTimers' = PendingTimers
          /\ reconnectAttempts' = reconnectAttempts
          /\ Len(sockets') = Len(sockets)]_vars

\* C36: each 'analysis-result' event puts its result in the current-value
\* slot and calls every current subscriber once with that result, in the step
\* the event arrives in, so in arrival order; between events no subscriber is
\* called again, and a new subscriber starts from the slot's value.
ArrivalStep == nArrived' = nArrived + 1
C36_ResultsDeliveredInArrivalOrder ==
    [][/\ ArrivalStep =>
            /\ lastResult'.at = anNow'
            /\ ~lastResult'.result.isNull => lastResult'.result.seq = nArrived'
            /\ messages' = lastResult'.result
            /\ subscribed' = subscribed
            /\ \A s \in Subscribers :
                  received'[s] = IF s \in subscribed
                                   THEN [last |-> lastResult'.result,
                                         count |-> received[s].count + 1]
                                   ELSE received[s]
       /\ ~ArrivalStep =>
            /\ messages' = messages
            /\ \A s \in subscribed : received'[s] = received[s]
            /\ \A s \in subscribed' \ subscribed :
                  received'[s] = [last |-> messages, count |-> 1]]_vars

\* C36: the component subscribed after the first result, was handed that
\* result, and both subscribers then got the second and third as they came.
C36_Witness ==
    /\ subscribed = Subscribers
    /\ nArrived = 3
    /\ messages = Result(3, "false")
    /\ received["dispatcher"] = [last |-> messages, count |-> 4]
    /\ received["component"] = [last |-> messages, count |-> 3]

\* C37: the window never holds more than 100 values; a value appended to a
\* full window drops the oldest and keeps the rest in order; after each
\* handled result averageProcessingTime is the sum of the window's values
\* over their number.
C37_WindowBoundedMeanCurrent ==
    [][/\ Len(processingTimes') <= MaxProcessingTimes
       /\ (ArrivalStep /\ lastResult'.handled) =>
            /\ averageProcessingTime'.sum = SumTo(processingTimes', Len(processingTimes'))
            /\ averageProcessingTime'.count = Len(processingTimes')
            /\ IF Len(processingTimes) = MaxProcessingTimes
                 THEN /\ Len(processingTimes') = MaxProcessingTimes
                      /\ SubSeq(processingTimes', 1, MaxProcessingTimes - 1)
                            = Tail(processingTimes)
                 ELSE /\ Len(processingTimes') = Len(processingTimes) + 1
                      /\ SubSeq(processingTimes', 1, Len(processingTimes))
                            = processingTimes]_vars

\* C37: with no send, 101 results have been handled one millisecond apart:
\* the window holds the 2nd to the 101st elapsed time.
C37_Witness ==
    /\ sends = <<>>
    /\ Len(processingTimes) = MaxProcessingTimes
    /\ processingTimes[1] = Epoch + 2
    /\ processingTimes[MaxProcessingTimes] = Epoch + MaxProcessingTimes + 1
    /\ lastResult.handled

\* C38: an inbound result raises platesDetected and the camera's
\* detectedPlates by one each when its hasPlate is true, and leaves both
\* alone when hasPlate is false or missing; the handler runs to its end
\* either way, and nothing else moves the counters.
C38_CountersFollowHasPlate ==
    [][/\ ArrivalStep =>
            LET r == lastResult'.result
                inc == IF ~r.isNull /\ r.hasPlate = "true" THEN 1 ELSE 0
            IN  /\ platesDetected' = platesDetected + inc
                /\ cameraDetectedPlates' = cameraDetectedPlates + inc
                /\ lastResult'.handled = ~r.isNull
       /\ ~ArrivalStep =>
            /\ platesDetected' = platesDetected
            /\ cameraDetectedPlates' = cameraDetectedPlates]_vars

\* C38: after a result with a plate, one without the hasPlate field was
\* handled and left both counters at one.
C38_Witness ==
    /\ lastResult.result = Result(2, "undefined")
    /\ lastResult.handled
    /\ platesDetected = 1
    /\ cameraDetectedPlates = 1
    /\ Len(processingTimes) = 2

\* C39: the elapsed time a handled result appends is its arrival time minus
\* the start time of the last analyzeThumbnail call made before it (minus 0,
\* the initial lastAnalysisTime, while there was none), whatever thumbnail it
\* answers.
LastSendTime == IF sends = <<>> THEN 0 ELSE sends[Len(sends)]
C39_ElapsedSinceLastSend ==
    [][(ArrivalStep /\ lastResult'.handled) =>
            /\ lastAnalysisTime = LastSendTime
            /\ processingTimes'[Len(processingTimes')] = lastResult'.at - LastSendTime]_vars

\* C39: a send, a result, a second send, two more results: the second and
\* the third result are both measured from the second send.
C39_Witness ==
    /\ sends = <<Epoch, Epoch + 1>>
    /\ nArrived = 3
    /\ processingTimes = <<1, 1, 2>>

====
